---- MODULE Spec2Model ----
(***************************************************************************)
(* Parallel keyword search of goit-cs-hw-04: the file scanner, the         *)
(* round-robin partition of the file list, the thread search (shared       *)
(* dictionary under one lock) and the process search (one queue message    *)
(* per worker, drained by the coordinator).  Two variants of the code are  *)
(* modelled: the self-contained main.py ("main") and the package made of   *)
(* thread_search.py, process_search.py and file_utils.py ("pkg").          *)
(***************************************************************************)
EXTENDS Integers, Sequences, FiniteSets, Bags, TLC

(* ---------------------------------------------------------------- bounds *)

\* Longest file list given to a search call.
MaxFiles == 3

\* Largest worker count given to a search call.
MaxWorkers == 2

\* How many messages the pipe under the results queue holds before a write
\* to it blocks.
PipeCapacity == 1

(* ----------------------------------------------------------- environment *)

\* The two variants of the code.
Variants == {"main", "pkg"}

\* Paths a caller may pass; gone.txt does not exist.
Paths == {"a.txt", "b.txt", "gone.txt"}

\* A file is a record [kind, data, bad]:
\*   "text"         a readable text file holding the characters data;
\*   "missing"      no such file: open() raises FileNotFoundError;
\*   "denied"       open() raises PermissionError;
\*   "undecodable"  the bytes of character bad are not UTF-8: the read that
\*                  reaches them raises UnicodeDecodeError;
\*   "ioerror"      the device fails at character bad: the read that reaches
\*                  it raises OSError.
TextFile(data) == [kind |-> "text", data |-> data, bad |-> 0]
NoFile(kind) == [kind |-> kind, data |-> <<>>, bad |-> 0]

\* The file system the searches run in.
FS ==
    [p \in Paths |->
        CASE p = "a.txt" ->
               TextFile(<<"P", "y", "\n", "d", "\n", "p", "Y", " ", "d">>)
          [] p = "b.txt" -> TextFile(<<"x", "\n", "p", "y", "\n">>)
          [] OTHER -> NoFile("missing")]

\* Keyword lists a caller may pass (keywords are sequences of characters).
KeywordLists ==
    { <<>>,
      << <<"p", "y">> >>,
      << <<"P", "Y">>, <<"d">> >>,
      << <<"d">>, <<"d">> >> }

(* ------------------------------------------------------------ dictionaries *)

\* A Python dict is modelled as the sequence of its items in insertion order,
\* each item a record [k |-> key, v |-> list].
DictKeys(d) == {d[i].k : i \in DOMAIN d}

DictGet(d, key) ==
    IF key \in DictKeys(d)
    THEN d[CHOOSE i \in DOMAIN d : d[i].k = key].v
    ELSE <<>>

\* Mutant: the new locations are put in front of the keyword's list.
DictExtendFront(d, key, locations) ==
    IF key \in DictKeys(d)
    THEN [i \in DOMAIN d |->
             IF d[i].k = key THEN [k |-> key, v |-> locations \o d[i].v] ELSE d[i]]
    ELSE Append(d, [k |-> key, v |-> locations])

\* Mutant: the first new location goes in front of the keyword's list, the
\* others behind it.
DictExtendAround(d, key, locations) ==
    IF key \in DictKeys(d)
    THEN [i \in DOMAIN d |->
             IF d[i].k = key /\ locations # <<>>
             THEN [k |-> key,
                   v |-> <<Head(locations)>> \o d[i].v \o Tail(locations)]
             ELSE d[i]]
    ELSE Append(d, [k |-> key, v |-> locations])

\* if key not in d: d[key] = []
\* d[key].extend(locations)
DictExtend(d, key, locations) ==
    IF key \in DictKeys(d)
    THEN [i \in DOMAIN d |->
             IF d[i].k = key THEN [k |-> key, v |-> d[i].v \o locations] ELSE d[i]]
    ELSE Append(d, [k |-> key, v |-> locations])

\* for keyword, locations in src.items(): extend dst
RECURSIVE DictFold(_, _)
DictFold(dst, src) ==
    IF src = <<>> THEN dst
    ELSE DictFold(DictExtend(dst, Head(src).k, Head(src).v), Tail(src))

\* The concatenation of a sequence of sequences.
RECURSIVE Concat(_)
Concat(seqs) == IF seqs = <<>> THEN <<>> ELSE Head(seqs) \o Concat(Tail(seqs))

(* ----------------------------------------------------------------- scanner *)

\* str.lower() on the characters of the model's alphabet.
LowerChar(c) ==
    CASE c = "P" -> "p"
      [] c = "Y" -> "y"
      [] c = "D" -> "d"
      [] c = "X" -> "x"
      [] OTHER -> c

\* Mutant: the test compares the text and the keyword as they are.
LowerAsIs(s) == s

Lower(s) == [i \in DOMAIN s |-> LowerChar(s[i])]

\* Python's substring test: sub in s
Contains(s, sub) ==
    \E i \in 0..(Len(s) - Len(sub)) : SubSeq(s, i + 1, i + Len(sub)) = sub

\* f"{file_path}:line {line_num}"
Location(file_path, line_num) == file_path \o ":line " \o ToString(line_num)

\* Text mode with newline=None: "\r\n" and a lone "\r" are read as "\n".
RECURSIVE UniversalNewlines(_)
UniversalNewlines(data) ==
    IF data = <<>> THEN <<>>
    ELSE IF Head(data) = "\r"
         THEN IF Len(data) >= 2 /\ data[2] = "\n"
              THEN <<"\n">> \o UniversalNewlines(Tail(Tail(data)))
              ELSE <<"\n">> \o UniversalNewlines(Tail(data))
         ELSE <<Head(data)>> \o UniversalNewlines(Tail(data))

\* The characters at which str.splitlines() ends a line (those of the
\* model's alphabet; "\r\n" counts as one boundary).
LineBoundaries == {"\n", "\r", "\f"}

\* The lines of text, line endings kept, a line ending at each character of
\* ends: str.splitlines(keepends=True) with ends = LineBoundaries, the
\* iteration of a text file with ends = {"\n"}.
RECURSIVE SplitKeepEnds(_, _, _)
SplitKeepEnds(text, ends, cur) ==
    IF text = <<>> THEN (IF cur = <<>> THEN <<>> ELSE <<cur>>)
    ELSE IF Head(text) \in ends
         THEN IF Head(text) = "\r" /\ Len(text) >= 2 /\ text[2] = "\n"
              THEN <<cur \o <<"\r", "\n">> >>
                     \o SplitKeepEnds(Tail(Tail(text)), ends, <<>>)
              ELSE <<Append(cur, Head(text))>>
                     \o SplitKeepEnds(Tail(text), ends, <<>>)
         ELSE SplitKeepEnds(Tail(text), ends, Append(cur, Head(text)))

\* results = {keyword: [] for keyword in keywords}
RECURSIVE EmptyResults(_)
EmptyResults(keywords) ==
    IF keywords = <<>> THEN <<>>
    ELSE LET rest == EmptyResults(SubSeq(keywords, 1, Len(keywords) - 1))
             last == keywords[Len(keywords)]
         IN  IF last \in DictKeys(rest) THEN rest
             ELSE Append(rest, [k |-> last, v |-> <<>>])

\* for keyword in keywords:
\*     if keyword.lower() in line.lower():
\*         results[keyword].append(f"{file_path}:line {line_num}")
RECURSIVE ScanLine(_, _, _, _, _)
ScanLine(results, file_path, line, line_num, keywords) ==
    IF keywords = <<>> THEN results
    ELSE LET keyword == Head(keywords)
             hit == Contains(Lower(line), Lower(keyword))
             next == IF hit
                     THEN DictExtend(results, keyword,
                                     <<Location(file_path, line_num)>>)
                     ELSE results
         IN  ScanLine(next, file_path, line, line_num, Tail(keywords))

\* The loop over lines; line_num is the number of the last line scanned.
\* Returns the results and the line number reached.
RECURSIVE ScanLines(_, _, _, _, _)
ScanLines(results, file_path, lines, line_num, keywords) ==
    IF lines = <<>> THEN [results |-> results, line_num |-> line_num]
    ELSE ScanLines(ScanLine(results, file_path, Head(lines), line_num + 1, keywords),
                   file_path, Tail(lines), line_num + 1, keywords)

\* Mutant: the scanner returns its results dictionary as it is.
NonEmptyItemsAll(results) == results

\* return {k: v for k, v in results.items() if v}
NonEmptyItems(results) == SelectSeq(results, LAMBDA item : item.v # <<>>)

\* What a call returns: a value, or the exception that escapes it.
Returned(val) == [exc |-> "none", val |-> val]
Raised(exc) == [exc |-> exc, val |-> <<>>]

\* The exception open(file_path, "r", encoding="utf-8") raises, "none" when
\* the file opens.
OpenError(f) ==
    CASE f.kind = "missing" -> "FileNotFoundError"
      [] f.kind = "denied" -> "PermissionError"
      [] OTHER -> "none"

\* The exception a read raises when it reaches character f.bad.
ReadError(f) ==
    CASE f.kind = "undecodable" -> "UnicodeDecodeError"
      [] f.kind = "ioerror" -> "OSError"
      [] OTHER -> "none"

\* Whether a read that has to deliver the characters up to last fails.
ReadFails(f, last) == ReadError(f) # "none" /\ f.bad <= last

\* The lines the iteration of the file yields before it ends or fails.  The
\* text layer reads the file chunk characters at a time: when the chunk
\* holding character f.bad is read the iteration raises, after the lines
\* completed by the chunks before it.
IteratedLines(f, text, chunk) ==
    IF ReadError(f) = "none" THEN SplitKeepEnds(text, {"\n"}, <<>>)
    ELSE LET readable == ((f.bad - 1) \div chunk) * chunk
             lines == SplitKeepEnds(SubSeq(text, 1, readable), {"\n"}, <<>>)
             complete(l) == l # <<>> /\ l[Len(l)] = "\n"
         IN  SelectSeq(lines, complete)

\* except Exception as e: (main.py)
CaughtByMain(exc) == TRUE

\* main.py's scanner on the file f found at file_path: it iterates the
\* lines of the file; whatever is raised is caught and the matches found
\* until then are returned.
ScanIterating(f, file_path, keywords, chunk) ==
    LET empty == EmptyResults(keywords)
        opened == OpenError(f) = "none"
        exc == IF opened THEN ReadError(f) ELSE OpenError(f)
        lines == IF opened
                 THEN IteratedLines(f, UniversalNewlines(f.data), chunk)
                 ELSE <<>>
        found == ScanLines(empty, file_path, lines, 0, keywords).results
    IN  IF exc = "none" \/ CaughtByMain(exc)
        THEN Returned(NonEmptyItems(found))
        ELSE Raised(exc)

\* The chunk size of Python's text layer (io.DEFAULT_BUFFER_SIZE).
text_chunk == 8192

\* main.py: search_keywords_in_file in the file system FS.
search_keywords_in_file_main(file_path, keywords) ==
    ScanIterating(FS[file_path], file_path, keywords, text_chunk)

\* buffer_size = 1024 * 1024
buffer_size == 1024 * 1024

\* file_utils.py: reads buffers of size characters from position pos on and
\* splits each buffer into lines, counting lines across buffers.  Returns
\* the results and the exception of the read that failed, "none" at the
\* end of the file.
RECURSIVE ScanBuffers(_, _, _, _, _, _, _, _)
ScanBuffers(results, file_path, f, text, pos, line_num, keywords, size) ==
    IF pos >= Len(text) THEN [results |-> results, exc |-> "none"]
    ELSE LET n == IF Len(text) - pos < size THEN Len(text) - pos ELSE size
         IN  IF ReadFails(f, pos + n)
             THEN [results |-> results, exc |-> ReadError(f)]
             ELSE LET buffer == SubSeq(text, pos + 1, pos + n)
                      lines == SplitKeepEnds(buffer, LineBoundaries, <<>>)
                      r == ScanLines(results, file_path, lines, line_num, keywords)
                  IN  ScanBuffers(r.results, file_path, f, text, pos + n,
                                  r.line_num, keywords, size)

\* except FileNotFoundError / except IOError (file_utils.py): IOError is
\* OSError, the base of FileNotFoundError and PermissionError;
\* UnicodeDecodeError is a ValueError.
CaughtByUtils(exc) == exc \in {"FileNotFoundError", "PermissionError", "OSError"}

\* file_utils.py's scanner on the file f found at file_path: the matches
\* collected before a caught failure are kept, any other exception escapes.
ScanBuffered(f, file_path, keywords, size) ==
    LET empty == EmptyResults(keywords)
        r == IF OpenError(f) # "none"
             THEN [results |-> empty, exc |-> OpenError(f)]
             ELSE ScanBuffers(empty, file_path, f, UniversalNewlines(f.data), 0, 0,
                              keywords, size)
    IN  IF r.exc = "none" \/ CaughtByUtils(r.exc)
        THEN Returned(NonEmptyItems(r.results))
        ELSE Raised(r.exc)

\* file_utils.py: search_keywords_in_file in the file system FS.
search_keywords_in_file_utils(file_path, keywords) ==
    ScanBuffered(FS[file_path], file_path, keywords, buffer_size)

(* --------------------------------------------------------------- partition *)

\* items[i::n] for 0 <= i and n >= 1: the items at indices i, i+n, i+2n, ...
Stride(items, i, n) ==
    LET count == IF i >= Len(items) THEN 0 ELSE ((Len(items) - 1 - i) \div n) + 1
    IN  [j \in 1..count |-> items[i + (j - 1) * n + 1]]

\* Mutant: every shard gets len(items) // n items, the remainder is dropped.
PartitionEven(items, n) ==
    [k \in 1..(IF n > 0 THEN n ELSE 0) |->
        [j \in 1..(Len(items) \div n) |-> items[(k - 1) + (j - 1) * n + 1]]]

\* Mutant: contiguous blocks of ceil(len(items) / n) items.
PartitionBlocks(items, n) ==
    [k \in 1..(IF n > 0 THEN n ELSE 0) |->
        LET size == (Len(items) + n - 1) \div n
            first == (k - 1) * size + 1
            last == IF k * size < Len(items) THEN k * size ELSE Len(items)
        IN  SubSeq(items, first, last)]

\* Mutant: no shard at all for an empty list.
PartitionSkipEmpty(items, n) ==
    IF items = <<>> THEN <<>>
    ELSE [k \in 1..(IF n > 0 THEN n ELSE 0) |-> Stride(items, k - 1, n)]

\* [items[i::n] for i in range(n)]; range(n) is empty for n <= 0.
Partition(items, n) ==
    [k \in 1..(IF n > 0 THEN n ELSE 0) |-> Stride(items, k - 1, n)]

(* ------------------------------------------------------------------- calls *)

\* Whether a call with npos positional arguments and the keyword arguments
\* kwnames binds to a function whose parameters (none has a default) are
\* params; Python raises TypeError when it does not.
Binds(params, npos, kwnames) ==
    /\ npos <= Len(params)
    /\ \A name \in kwnames : \E i \in (npos + 1)..Len(params) : params[i] = name
    /\ npos + Cardinality(kwnames) = Len(params)

\* def search_keywords_in_file(file_path, keywords), in both variants.
ScannerParams == <<"file_path", "keywords">>

\* The scanner of a variant, called as its signature asks.
Scanner(v, file_path, kws) ==
    IF v = "main" THEN search_keywords_in_file_main(file_path, kws)
    ELSE search_keywords_in_file_utils(file_path, kws)

\* thread_search's call of the scanner:
\*   main.py          search_keywords_in_file(file, keywords)
\*   thread_search.py search_keywords_in_file(file, keywords, logger)
\* scan is what the scanner returns when the call binds.
ThreadScanCall(v, scan) ==
    IF Binds(ScannerParams, IF v = "main" THEN 2 ELSE 3, {})
    THEN scan
    ELSE Raised("TypeError")

\* process_search's call of the scanner:
\*   main.py           search_keywords_in_file(file, keywords)
\*   process_search.py search_keywords_in_file(file, keywords, logger=logger)
ProcessScanCall(v, scan) ==
    IF Binds(ScannerParams, 2, IF v = "main" THEN {} ELSE {"logger"})
    THEN scan
    ELSE Raised("TypeError")

\* Whether the worker's loop body catches an exception of the scanner call:
\* thread_search.py and process_search.py wrap it in try/except Exception,
\* main.py does not.
WorkerCatches(v) == v = "pkg"

(* ------------------------------------------------------------------- state *)

VARIABLES
    variant,        \* which variant of the code runs
    file_paths,     \* the caller's file list
    keywords,       \* the caller's keyword list
    num,            \* the caller's worker count (num_threads, num_processes)
    scans,          \* per path: what the variant's scanner returns for it and
                    \* the caller's keywords (no step of a search changes a file)
    cpc,            \* where the caller and coordinator are
    shards,         \* files_per_thread, then files_per_process
    started,        \* how many workers the coordinator has started
    joined,         \* how many workers the coordinator has joined
    wpc,            \* per worker: "idle", "scan", "fold", "sent", "flushed",
                    \* "crashed", "done"
    widx,           \* per worker: the index in its shard of the next file
    wres,           \* per worker: thread_results or process_results
    wkey,           \* per worker: the next item of wres to fold
    lock,           \* the worker holding the lock, 0 when it is free
    result_dict,    \* the dictionary the threads share
    tret,           \* what parallel_file_search_threading returned
    result_queue,   \* the messages written to the queue's pipe, not yet received
    puts,           \* per worker: how many messages it has put
    received,       \* the senders of the messages received, in order
    results,        \* the coordinator's dictionary in the process search
    pret,           \* what parallel_file_search_multiprocessing returned
    file,           \* a single scanner call: the file found at ScanPath
    size,           \* a single scanner call: the characters one read delivers
    spc,            \* a single scanner call: "off", "call" or "returned"
    out,            \* a single scanner call: what the call returned or raised
    parallel_method,    \* generator: the caller's parallel_method
    num_files,          \* generator: the caller's num_files
    random_subdir,      \* generator: per file, the subdirectory random.choice picks
    num_workers,        \* generator: os.cpu_count()
    gpc,                \* generator: "off", "call", "run" or "returned"
    files_to_create,    \* generator: the files to create
    files_per_worker,   \* generator: the workers' shares of files_to_create
    gstarted,           \* generator: how many workers were started
    gjoined,            \* generator: how many workers were joined
    gwpc,               \* generator, per worker: "idle", "create", "sent",
                        \* "flushed", "done"; worker 0 is the coordinator's own
                        \* call of create_file_thread_worker
    gwidx,              \* generator, per worker: the index of its next file
    created_files,      \* generator, per worker: its created_files
    disk,               \* generator: the paths of the files on disk
    gen_queue,          \* generator: the messages in the queue's pipe
    gen_received,       \* generator: how many messages the coordinator got
    all_created_files,  \* generator: the coordinator's list
    gret                \* generator: what create_test_files_and_folders returned

vars ==
    <<variant, file_paths, keywords, num, scans, cpc, shards, started, joined, wpc,
      widx, wres, wkey, lock, result_dict, tret, result_queue, puts, received,
      results, pret, file, size, spc, out, parallel_method, num_files,
      random_subdir, num_workers, gpc, files_to_create, files_per_worker,
      gstarted, gjoined, gwpc, gwidx, created_files, disk, gen_queue,
      gen_received, all_created_files, gret>>

inputs == <<variant, file_paths, keywords, num, scans>>
threadVars == <<lock, result_dict, tret>>
processVars == <<result_queue, puts, received, results, pret>>
scanVars == <<file, size, spc, out>>

genInputs == <<parallel_method, num_files, random_subdir, num_workers>>
genVars ==
    <<genInputs, gpc, files_to_create, files_per_worker, gstarted, gjoined,
      gwpc, gwidx, created_files, disk, gen_queue, gen_received,
      all_created_files, gret>>

\* The generator does not run.
NoGenCall ==
    /\ parallel_method = "sequential"
    /\ num_files = 0
    /\ random_subdir = <<>>
    /\ num_workers = 1
    /\ gpc = "off"
    /\ files_to_create = <<>>
    /\ files_per_worker = <<>>
    /\ gstarted = 0
    /\ gjoined = 0
    /\ gwpc = <<>>
    /\ gwidx = <<>>
    /\ created_files = <<>>
    /\ disk = {}
    /\ gen_queue = <<>>
    /\ gen_received = 0
    /\ all_created_files = <<>>
    /\ gret = <<>>

\* No single scanner call is under way.
NoScanCall ==
    /\ file = NoFile("missing")
    /\ size = buffer_size
    /\ spc = "off"
    /\ out = Returned(<<>>)

\* The file lists of at most MaxFiles paths, duplicates allowed.
FileLists == UNION {[1..n -> Paths] : n \in 0..MaxFiles}

\* The worker counts a caller may pass.
WorkerCounts == (-1)..MaxWorkers

Workers == DOMAIN shards

Init ==
    /\ variant \in Variants
    /\ file_paths \in FileLists
    /\ keywords \in KeywordLists
    /\ num \in WorkerCounts
    /\ scans = [p \in Paths |-> Scanner(variant, p, keywords)]
    /\ NoScanCall
    /\ NoGenCall
    /\ cpc = "t_call"
    /\ shards = <<>>
    /\ started = 0
    /\ joined = 0
    /\ wpc = <<>>
    /\ widx = <<>>
    /\ wres = <<>>
    /\ wkey = <<>>
    /\ lock = 0
    /\ result_dict = <<>>
    /\ tret = <<>>
    /\ result_queue = <<>>
    /\ puts = <<>>
    /\ received = <<>>
    /\ results = <<>>
    /\ pret = <<>>

\* The workers of a fresh call: none started.
FreshWorkers(parts) ==
    /\ shards' = parts
    /\ started' = 0
    /\ joined' = 0
    /\ wpc' = [w \in DOMAIN parts |-> "idle"]
    /\ widx' = [w \in DOMAIN parts |-> 1]
    /\ wres' = [w \in DOMAIN parts |-> <<>>]
    /\ wkey' = [w \in DOMAIN parts |-> 1]

\* One iteration of a worker's loop over its files: the scanner call and
\* the fold of the file's results into the worker's own dictionary.
ScanStep(w, call) ==
    /\ widx' = [widx EXCEPT ![w] = @ + 1]
    /\ IF call.exc = "none"
       THEN /\ wres' = [wres EXCEPT ![w] = DictFold(@, call.val)]
            /\ wpc' = wpc
       ELSE /\ wres' = wres
            /\ wpc' = IF WorkerCatches(variant) THEN wpc
                      ELSE [wpc EXCEPT ![w] = "crashed"]

(* ----------------------------------------------------------- thread search *)

\* files_per_thread = [file_paths[i::num_threads] for i in range(num_threads)]
\* result_dict = {}; lock = threading.Lock(); threads = []
TSplit ==
    /\ cpc = "t_call"
    /\ cpc' = "t_run"
    /\ FreshWorkers(Partition(file_paths, num))
    /\ lock' = 0
    /\ result_dict' = <<>>
    /\ UNCHANGED <<inputs, scanVars, genVars, tret, processVars>>

\* thread = threading.Thread(target=thread_search, ...); thread.start()
TStart ==
    /\ cpc = "t_run"
    /\ started < Len(shards)
    /\ started' = started + 1
    /\ wpc' = [wpc EXCEPT ![started + 1] = "scan"]
    /\ UNCHANGED <<inputs, scanVars, genVars, cpc, shards, joined, widx, wres, wkey, threadVars,
                   processVars>>

\* thread_search: for file in files: ...
TScan(w) ==
    /\ cpc = "t_run"
    /\ wpc[w] = "scan"
    /\ widx[w] <= Len(shards[w])
    /\ ScanStep(w, ThreadScanCall(variant, scans[shards[w][widx[w]]]))
    /\ UNCHANGED <<inputs, scanVars, genVars, cpc, shards, started, joined, wkey, threadVars,
                   processVars>>

\* Mutant: the fold is entered without waiting for the lock.
CanAcquireAlways(l) == TRUE

\* Whether lock.acquire() may return: the lock is free.
CanAcquire(l) == l = 0

\* Mutant: "with lock:" encloses the loop over the files.
LoopOverAtOnce(idx, shard) == TRUE

\* Whether thread_search has left its loop over the files of its shard, the
\* statement before "with lock:".
LoopOver(idx, shard) == idx > Len(shard)

\* thread_search: with lock: (entering)
TAcquire(w) ==
    /\ cpc = "t_run"
    /\ wpc[w] = "scan"
    /\ LoopOver(widx[w], shards[w])
    /\ CanAcquire(lock)
    /\ lock' = w
    /\ wpc' = [wpc EXCEPT ![w] = "fold"]
    /\ UNCHANGED <<inputs, scanVars, genVars, cpc, shards, started, joined, widx, wres, wkey,
                   result_dict, tret, processVars>>

\* thread_search: one iteration of the loop over thread_results.items()
TFold(w) ==
    /\ cpc = "t_run"
    /\ wpc[w] = "fold"
    /\ wkey[w] <= Len(wres[w])
    /\ result_dict' =
           DictExtend(result_dict, wres[w][wkey[w]].k, wres[w][wkey[w]].v)
    /\ wkey' = [wkey EXCEPT ![w] = @ + 1]
    /\ UNCHANGED <<inputs, scanVars, genVars, cpc, shards, started, joined, wpc, widx, wres, lock,
                   tret, processVars>>

\* thread_search: with lock: (leaving); the thread ends.
TRelease(w) ==
    /\ cpc = "t_run"
    /\ wpc[w] = "fold"
    /\ wkey[w] > Len(wres[w])
    /\ lock' = 0
    /\ wpc' = [wpc EXCEPT ![w] = "done"]
    /\ UNCHANGED <<inputs, scanVars, genVars, cpc, shards, started, joined, widx, wres, wkey,
                   result_dict, tret, processVars>>

\* Mutant: join returns whether or not the worker has ended.
JoinReturnsAtOnce(worker_pc) == TRUE

\* Whether thread.join() and process.join() may return: the worker has ended.
JoinReturns(worker_pc) == worker_pc \in {"done", "crashed"}

\* for thread in threads: thread.join()
TJoin ==
    /\ cpc = "t_run"
    /\ started = Len(shards)
    /\ joined < Len(shards)
    /\ JoinReturns(wpc[joined + 1])
    /\ joined' = joined + 1
    /\ UNCHANGED <<inputs, scanVars, genVars, cpc, shards, started, wpc, widx, wres, wkey,
                   threadVars, processVars>>

\* return result_dict
TReturn ==
    /\ cpc = "t_run"
    /\ started = Len(shards)
    /\ joined = Len(shards)
    /\ cpc' = "t_returned"
    /\ tret' = result_dict
    /\ UNCHANGED <<inputs, scanVars, genVars, shards, started, joined, wpc, widx, wres, wkey, lock,
                   result_dict, processVars>>

(* ---------------------------------------------------------- process search *)

\* files_per_process = [file_paths[i::num_processes] for i in range(num_processes)]
\* result_queue = multiprocessing.Queue(); processes = []
PSplit ==
    /\ cpc \in {"t_returned", "p_call"}
    /\ cpc' = "p_run"
    /\ FreshWorkers(Partition(file_paths, num))
    /\ result_queue' = <<>>
    /\ puts' = [w \in DOMAIN Partition(file_paths, num) |-> 0]
    /\ received' = <<>>
    /\ results' = <<>>
    /\ UNCHANGED <<inputs, scanVars, genVars, threadVars, pret>>

\* process = multiprocessing.Process(target=process_search, ...); process.start()
PStart ==
    /\ cpc = "p_run"
    /\ started < Len(shards)
    /\ started' = started + 1
    /\ wpc' = [wpc EXCEPT ![started + 1] = "scan"]
    /\ UNCHANGED <<inputs, scanVars, genVars, cpc, shards, joined, widx, wres, wkey, threadVars,
                   processVars>>

\* process_search: for file in files: ...
PScan(w) ==
    /\ cpc = "p_run"
    /\ wpc[w] = "scan"
    /\ widx[w] <= Len(shards[w])
    /\ ScanStep(w, ProcessScanCall(variant, scans[shards[w][widx[w]]]))
    /\ UNCHANGED <<inputs, scanVars, genVars, cpc, shards, started, joined, wkey, threadVars,
                   processVars>>

\* Mutant: the put sits inside the loop, reached after the first file.
PutReachedInLoop(idx, shard) == idx > 1 \/ idx > Len(shard)

\* Mutant: process_search returns early, without a put, when it has no file.
PutReachedNonEmpty(idx, shard) == idx > Len(shard) /\ shard # <<>>

\* Whether process_search has reached result_queue.put: its loop over the
\* files of its shard has ended.
PutReached(idx, shard) == idx > Len(shard)

\* process_search: result_queue.put(process_results).  The queue is
\* unbounded: put leaves the message in the worker's own buffer and returns.
PPut(w) ==
    /\ cpc = "p_run"
    /\ wpc[w] = "scan"
    /\ PutReached(widx[w], shards[w])
    /\ puts' = [puts EXCEPT ![w] = @ + 1]
    /\ wpc' = [wpc EXCEPT ![w] = "sent"]
    /\ UNCHANGED <<inputs, scanVars, genVars, cpc, shards, started, joined, widx, wres, wkey,
                   threadVars, result_queue, received, results, pret>>

\* The queue's feeder thread in the worker writes the buffered message to
\* the pipe; the write waits while the pipe is full.
PFlush(w) ==
    /\ cpc = "p_run"
    /\ wpc[w] = "sent"
    /\ Len(result_queue) < PipeCapacity
    /\ result_queue' = Append(result_queue, [from |-> w, body |-> wres[w]])
    /\ wpc' = [wpc EXCEPT ![w] = "flushed"]
    /\ UNCHANGED <<inputs, scanVars, genVars, cpc, shards, started, joined, widx, wres, wkey,
                   threadVars, puts, received, results, pret>>

\* process_search has returned and the feeder thread has written the
\* message: the worker process terminates.
PExit(w) ==
    /\ cpc = "p_run"
    /\ wpc[w] = "flushed"
    /\ wpc' = [wpc EXCEPT ![w] = "done"]
    /\ UNCHANGED <<inputs, scanVars, genVars, cpc, shards, started, joined, widx, wres, wkey,
                   threadVars, processVars>>

\* Mutant: the drain loop stops one receive short.
DrainCountShort(processes) == IF Len(processes) > 0 THEN Len(processes) - 1 ELSE 0

\* for _ in processes: the number of receives of the drain loop.
DrainCount(processes) == Len(processes)

\* Mutant: results[keyword] = locations, the list is replaced, not extended.
RECURSIVE FoldMessageAssign(_, _)
FoldMessageAssign(res, process_result) ==
    IF process_result = <<>> THEN res
    ELSE LET item == Head(process_result)
             put == IF item.k \in DictKeys(res)
                    THEN [i \in DOMAIN res |->
                             IF res[i].k = item.k THEN item ELSE res[i]]
                    ELSE Append(res, item)
         IN  FoldMessageAssign(put, Tail(process_result))

\* The fold of one received message into the coordinator's results.
FoldMessage(res, process_result) == DictFold(res, process_result)

\* process_result = result_queue.get(), then the fold of process_result.
PGet ==
    /\ cpc = "p_run"
    /\ started = Len(shards)
    /\ Len(received) < DrainCount(shards)
    /\ result_queue # <<>>
    /\ result_queue' = Tail(result_queue)
    /\ received' = Append(received, Head(result_queue).from)
    /\ results' = FoldMessage(results, Head(result_queue).body)
    /\ UNCHANGED <<inputs, scanVars, genVars, cpc, shards, started, joined, wpc, widx, wres, wkey,
                   threadVars, puts, pret>>

\* Mutant: the join loop comes first, the drain loop is not waited for.
DrainOverAtOnce(nreceived, processes) == TRUE

\* Whether the coordinator has left the drain loop.
DrainOver(nreceived, processes) == nreceived >= DrainCount(processes)

\* for process in processes: process.join()
PJoin ==
    /\ cpc = "p_run"
    /\ started = Len(shards)
    /\ DrainOver(Len(received), shards)
    /\ joined < Len(shards)
    /\ JoinReturns(wpc[joined + 1])
    /\ joined' = joined + 1
    /\ UNCHANGED <<inputs, scanVars, genVars, cpc, shards, started, wpc, widx, wres, wkey,
                   threadVars, processVars>>

\* return results
PReturn ==
    /\ cpc = "p_run"
    /\ started = Len(shards)
    /\ DrainOver(Len(received), shards)
    /\ joined = Len(shards)
    /\ cpc' = "p_returned"
    /\ pret' = results
    /\ UNCHANGED <<inputs, scanVars, genVars, shards, started, joined, wpc, widx, wres, wkey,
                   threadVars, result_queue, puts, received, results>>

Next ==
    \/ TSplit
    \/ TStart
    \/ \E w \in Workers : TScan(w)
    \/ \E w \in Workers : TAcquire(w)
    \/ \E w \in Workers : TFold(w)
    \/ \E w \in Workers : TRelease(w)
    \/ TJoin
    \/ TReturn
    \/ PSplit
    \/ PStart
    \/ \E w \in Workers : PScan(w)
    \/ \E w \in Workers : PPut(w)
    \/ \E w \in Workers : PFlush(w)
    \/ \E w \in Workers : PExit(w)
    \/ PGet
    \/ PJoin
    \/ PReturn

Spec == Init /\ [][Next]_vars

(* ------------------------------------------- the process search on its own *)

\* A caller about to call parallel_file_search_multiprocessing.
InitP ==
    /\ variant \in Variants
    /\ file_paths \in FileLists
    /\ keywords \in KeywordLists
    /\ num \in WorkerCounts
    /\ scans = [p \in Paths |-> Scanner(variant, p, keywords)]
    /\ NoScanCall
    /\ NoGenCall
    /\ cpc = "p_call"
    /\ shards = <<>>
    /\ started = 0
    /\ joined = 0
    /\ wpc = <<>>
    /\ widx = <<>>
    /\ wres = <<>>
    /\ wkey = <<>>
    /\ lock = 0
    /\ result_dict = <<>>
    /\ tret = <<>>
    /\ result_queue = <<>>
    /\ puts = <<>>
    /\ received = <<>>
    /\ results = <<>>
    /\ pret = <<>>

NextP ==
    \/ PSplit
    \/ PStart
    \/ \E w \in Workers : PScan(w)
    \/ \E w \in Workers : PPut(w)
    \/ \E w \in Workers : PFlush(w)
    \/ \E w \in Workers : PExit(w)
    \/ PGet
    \/ PJoin
    \/ PReturn

\* The operating system runs every process that can run: some step that is
\* possible is eventually taken.
ProcSpec == InitP /\ [][NextP]_vars /\ WF_vars(NextP)

(* ------------------------------------------------------------------ faults *)

\* Mutant: a fault inside the with block leaves the lock as it is.
ReleasedOnFaultNot(l, w) == l

\* An exception that leaves "with lock:" releases the lock the worker holds.
ReleasedOnFault(l, w) == IF l = w THEN 0 ELSE l

\* A fault nothing handles ends a worker thread, while it scans, waits for
\* the lock or folds; one worker at most faults.
TFault(w) ==
    /\ cpc = "t_run"
    /\ wpc[w] \in {"scan", "fold"}
    /\ \A v \in Workers : wpc[v] # "crashed"
    /\ wpc' = [wpc EXCEPT ![w] = "crashed"]
    /\ lock' = ReleasedOnFault(lock, w)
    /\ UNCHANGED <<inputs, scanVars, genVars, cpc, shards, started, joined, widx, wres,
                   wkey, result_dict, tret, processVars>>

NextT ==
    \/ TSplit
    \/ TStart
    \/ \E w \in Workers : TScan(w)
    \/ \E w \in Workers : TAcquire(w)
    \/ \E w \in Workers : TFold(w)
    \/ \E w \in Workers : TRelease(w)
    \/ \E w \in Workers : TFault(w)
    \/ TJoin
    \/ TReturn

\* The thread search with a worker that may fault, every thread that can
\* run being scheduled.
ThreadFaultSpec == Init /\ [][NextT]_vars /\ WF_vars(NextT)

\* A worker process ends before its put (killed, or a fault nothing
\* handles); one worker at most.
PFault(w) ==
    /\ cpc = "p_run"
    /\ wpc[w] = "scan"
    /\ \A v \in Workers : wpc[v] # "crashed"
    /\ wpc' = [wpc EXCEPT ![w] = "crashed"]
    /\ UNCHANGED <<inputs, scanVars, genVars, cpc, shards, started, joined, widx, wres,
                   wkey, threadVars, processVars>>

NextPF ==
    \/ NextP
    \/ \E w \in Workers : PFault(w)

\* The process search with a worker that may end early.
ProcFaultSpec == InitP /\ [][NextPF]_vars /\ WF_vars(NextPF)

(* ------------------------------------------------------ one scanner call *)

\* Bounds of the single-call specification: the longest file text, and the
\* read size that stands for a buffer smaller than the file.
MaxScanLen == 4
ScanBuffer == 2

ScanPath == "s.txt"
ScanAlphabet == {"P", "p", "y", "\n"}
ScanTexts == UNION {[1..n -> ScanAlphabet] : n \in 0..MaxScanLen}

\* The files a call may find: readable texts, files that do not open, and
\* files whose read fails at one of their characters.
ScanFiles ==
    {TextFile(t) : t \in ScanTexts}
      \cup {NoFile(k) : k \in {"missing", "denied"}}
      \cup {f \in [kind : {"undecodable", "ioerror"}, data : ScanTexts,
                   bad : 1..MaxScanLen] : f.bad <= Len(f.data)}

ScanKeywordLists ==
    {<<>>, << <<"p">> >>, << <<"P", "Y">> >>, << <<"y">>, <<"Y", "p">> >>}

\* The read sizes: smaller than the file, and the code's own, which no file
\* of the model exceeds.
ScanSizes == {ScanBuffer, buffer_size}

\* The scanner of variant v on the file f: size is the buffer of
\* file_utils.py's reads and the chunk of main.py's text layer.
ScanFile(v, f, file_path, kws, n) ==
    IF v = "main" THEN ScanIterating(f, file_path, kws, n)
    ELSE ScanBuffered(f, file_path, kws, n)

InitScan ==
    /\ variant \in Variants
    /\ file_paths = <<ScanPath>>
    /\ keywords \in ScanKeywordLists
    /\ num = 1
    /\ scans = [p \in Paths |-> Returned(<<>>)]
    /\ cpc = "scan"
    /\ shards = <<>>
    /\ started = 0
    /\ joined = 0
    /\ wpc = <<>>
    /\ widx = <<>>
    /\ wres = <<>>
    /\ wkey = <<>>
    /\ lock = 0
    /\ result_dict = <<>>
    /\ tret = <<>>
    /\ result_queue = <<>>
    /\ puts = <<>>
    /\ received = <<>>
    /\ results = <<>>
    /\ pret = <<>>
    /\ file \in ScanFiles
    /\ size \in ScanSizes
    /\ spc = "call"
    /\ out = Returned(<<>>)
    /\ NoGenCall

\* search_keywords_in_file(file_path, keywords)
ScanCall ==
    /\ spc = "call"
    /\ spc' = "returned"
    /\ out' = ScanFile(variant, file, ScanPath, keywords, size)
    /\ UNCHANGED <<inputs, genVars, file, size, cpc, shards, started, joined, wpc, widx,
                   wres, wkey, threadVars, processVars>>

ScanSpec == InitScan /\ [][ScanCall]_vars

(* ---------------------------------------------------------- file generator *)

\* class Methods, and a value that is neither of them.
GenMethods == {"threading", "multiprocessing", "sequential"}

\* Two of the subdirectories random.choice picks from.
GenSubdirs == {"", "subdir1"}

\* os.path.join(base_dir, file_info["subdir"], file_info["filename"])
GenPath(file_info) == <<file_info.subdir, file_info.filename>>

\* The workers: the started threads or processes, and 0, the coordinator's
\* own call of create_file_thread_worker in the sequential fallback.
GenWorkers == 0..Len(files_per_worker)

\* The files_to_create argument of worker w.
WorkerFiles(w) == IF w = 0 THEN files_to_create ELSE files_per_worker[w]

\* Whether the worker was given a result_queue: only a process is.
HasQueue(method) == method = "multiprocessing"

InitGen ==
    /\ variant = "pkg"
    /\ file_paths = <<>>
    /\ keywords = <<>>
    /\ num = 0
    /\ scans = [p \in Paths |-> Returned(<<>>)]
    /\ cpc = "gen"
    /\ shards = <<>>
    /\ started = 0
    /\ joined = 0
    /\ wpc = <<>>
    /\ widx = <<>>
    /\ wres = <<>>
    /\ wkey = <<>>
    /\ lock = 0
    /\ result_dict = <<>>
    /\ tret = <<>>
    /\ result_queue = <<>>
    /\ puts = <<>>
    /\ received = <<>>
    /\ results = <<>>
    /\ pret = <<>>
    /\ NoScanCall
    /\ parallel_method \in GenMethods
    /\ num_files \in 0..MaxFiles
    /\ random_subdir \in [1..num_files -> GenSubdirs]
    /\ num_workers \in 1..MaxWorkers
    /\ gpc = "call"
    /\ files_to_create = <<>>
    /\ files_per_worker = <<>>
    /\ gstarted = 0
    /\ gjoined = 0
    /\ gwpc = <<>>
    /\ gwidx = <<>>
    /\ created_files = <<>>
    /\ disk = {}
    /\ gen_queue = <<>>
    /\ gen_received = 0
    /\ all_created_files = <<>>
    /\ gret = <<>>

searchVars ==
    <<inputs, scanVars, cpc, shards, started, joined, wpc, widx, wres, wkey,
      threadVars, processVars>>

\* shutil.rmtree(base_dir); os.makedirs(base_dir); the list of files;
\* files_per_worker = [files_to_create[i::num_workers] for i in range(num_workers)]
\* all_created_files = []
GPrepare ==
    /\ gpc = "call"
    /\ gpc' = "run"
    /\ disk' = {}
    /\ LET todo == [i \in 1..num_files |->
                       [subdir |-> random_subdir[i], filename |-> i - 1]]
           parts == Partition(todo, num_workers)
       IN  /\ files_to_create' = todo
           /\ files_per_worker' = parts
           /\ gwpc' = [w \in 0..Len(parts) |-> "idle"]
           /\ gwidx' = [w \in 0..Len(parts) |-> 1]
           /\ created_files' = [w \in 0..Len(parts) |-> <<>>]
    /\ all_created_files' = <<>>
    /\ UNCHANGED <<searchVars, genInputs, gstarted, gjoined, gen_queue,
                   gen_received, gret>>

\* thread.start() / process.start() for the next share.
GStart ==
    /\ gpc = "run"
    /\ parallel_method \in {"threading", "multiprocessing"}
    /\ gstarted < Len(files_per_worker)
    /\ gstarted' = gstarted + 1
    /\ gwpc' = [gwpc EXCEPT ![gstarted + 1] = "create"]
    /\ UNCHANGED <<searchVars, genInputs, gpc, files_to_create, files_per_worker,
                   gjoined, gwidx, created_files, disk, gen_queue, gen_received,
                   all_created_files, gret>>

\* The sequential fallback calls create_file_thread_worker itself.
GSeqCall ==
    /\ gpc = "run"
    /\ parallel_method \notin {"threading", "multiprocessing"}
    /\ gwpc[0] = "idle"
    /\ gwpc' = [gwpc EXCEPT ![0] = "create"]
    /\ UNCHANGED <<searchVars, genInputs, gpc, files_to_create, files_per_worker,
                   gstarted, gjoined, gwidx, created_files, disk, gen_queue,
                   gen_received, all_created_files, gret>>

\* create_file_thread_worker: one iteration of the loop over its files.
GCreate(w) ==
    /\ gpc = "run"
    /\ gwpc[w] = "create"
    /\ gwidx[w] <= Len(WorkerFiles(w))
    /\ LET file_path == GenPath(WorkerFiles(w)[gwidx[w]])
       IN  /\ disk' = disk \cup {file_path}
           /\ created_files' = [created_files EXCEPT ![w] = Append(@, file_path)]
    /\ gwidx' = [gwidx EXCEPT ![w] = @ + 1]
    /\ UNCHANGED <<searchVars, genInputs, gpc, files_to_create, files_per_worker,
                   gstarted, gjoined, gwpc, gen_queue, gen_received,
                   all_created_files, gret>>

\* create_file_thread_worker: after the loop, result_queue.put(created_files)
\* when a queue was passed.
GPut(w) ==
    /\ gpc = "run"
    /\ gwpc[w] = "create"
    /\ gwidx[w] > Len(WorkerFiles(w))
    /\ HasQueue(parallel_method)
    /\ gwpc' = [gwpc EXCEPT ![w] = "sent"]
    /\ UNCHANGED <<searchVars, genInputs, gpc, files_to_create, files_per_worker,
                   gstarted, gjoined, gwidx, created_files, disk, gen_queue,
                   gen_received, all_created_files, gret>>

\* The queue's feeder thread writes the message to the pipe.
GFlush(w) ==
    /\ gpc = "run"
    /\ gwpc[w] = "sent"
    /\ Len(gen_queue) < PipeCapacity
    /\ gen_queue' = Append(gen_queue, created_files[w])
    /\ gwpc' = [gwpc EXCEPT ![w] = "flushed"]
    /\ UNCHANGED <<searchVars, genInputs, gpc, files_to_create, files_per_worker,
                   gstarted, gjoined, gwidx, created_files, disk, gen_received,
                   all_created_files, gret>>

\* create_file_thread_worker: return created_files; a thread or a process
\* ends, its return value dropped.
GWorkerReturn(w) ==
    /\ gpc = "run"
    /\ \/ gwpc[w] = "flushed"
       \/ /\ gwpc[w] = "create"
          /\ gwidx[w] > Len(WorkerFiles(w))
          /\ ~HasQueue(parallel_method)
    /\ gwpc' = [gwpc EXCEPT ![w] = "done"]
    /\ UNCHANGED <<searchVars, genInputs, gpc, files_to_create, files_per_worker,
                   gstarted, gjoined, gwidx, created_files, disk, gen_queue,
                   gen_received, all_created_files, gret>>

\* for _ in processes: all_created_files.extend(result_queue.get())
GGet ==
    /\ gpc = "run"
    /\ parallel_method = "multiprocessing"
    /\ gstarted = Len(files_per_worker)
    /\ gen_received < Len(files_per_worker)
    /\ gen_queue # <<>>
    /\ all_created_files' = all_created_files \o Head(gen_queue)
    /\ gen_queue' = Tail(gen_queue)
    /\ gen_received' = gen_received + 1
    /\ UNCHANGED <<searchVars, genInputs, gpc, files_to_create, files_per_worker,
                   gstarted, gjoined, gwpc, gwidx, created_files, disk, gret>>

\* for thread in threads: thread.join() / for process in processes:
\* process.join(), the latter after the loop of gets.
GJoin ==
    /\ gpc = "run"
    /\ parallel_method \in {"threading", "multiprocessing"}
    /\ gstarted = Len(files_per_worker)
    /\ parallel_method = "multiprocessing" =>
          gen_received = Len(files_per_worker)
    /\ gjoined < Len(files_per_worker)
    /\ JoinReturns(gwpc[gjoined + 1])
    /\ gjoined' = gjoined + 1
    /\ UNCHANGED <<searchVars, genInputs, gpc, files_to_create, files_per_worker,
                   gstarted, gwpc, gwidx, created_files, disk, gen_queue,
                   gen_received, all_created_files, gret>>

\* return all_created_files, after a parallel branch.
GReturn ==
    /\ gpc = "run"
    /\ parallel_method \in {"threading", "multiprocessing"}
    /\ gstarted = Len(files_per_worker)
    /\ gjoined = Len(files_per_worker)
    /\ gpc' = "returned"
    /\ gret' = all_created_files
    /\ UNCHANGED <<searchVars, genInputs, files_to_create, files_per_worker,
                   gstarted, gjoined, gwpc, gwidx, created_files, disk,
                   gen_queue, gen_received, all_created_files>>

\* all_created_files = create_file_thread_worker(base_dir, files_to_create)
\* return all_created_files
GSeqReturn ==
    /\ gpc = "run"
    /\ gwpc[0] = "done"
    /\ gpc' = "returned"
    /\ all_created_files' = created_files[0]
    /\ gret' = created_files[0]
    /\ UNCHANGED <<searchVars, genInputs, files_to_create, files_per_worker,
                   gstarted, gjoined, gwpc, gwidx, created_files, disk,
                   gen_queue, gen_received>>

NextGen ==
    \/ GPrepare
    \/ GStart
    \/ GSeqCall
    \/ \E w \in GenWorkers : GCreate(w)
    \/ \E w \in GenWorkers : GPut(w)
    \/ \E w \in GenWorkers : GFlush(w)
    \/ \E w \in GenWorkers : GWorkerReturn(w)
    \/ GGet
    \/ GJoin
    \/ GReturn
    \/ GSeqReturn

GenSpec == InitGen /\ [][NextGen]_vars

(* ------------------------------------------------------------------ claims *)

Range(seq) == {seq[i] : i \in DOMAIN seq}

\* The bag (multiset) of the elements of a sequence.
RECURSIVE SeqBag(_)
SeqBag(s) ==
    IF s = <<>> THEN EmptyBag ELSE SetToBag({Head(s)}) (+) SeqBag(Tail(s))

\* The bag of the locations a dictionary holds for a keyword.
LocBag(d, key) == SeqBag(DictGet(d, key))

\* The sum of a sequence of bags.
RECURSIVE SumBags(_)
SumBags(bags) ==
    IF bags = <<>> THEN EmptyBag ELSE Head(bags) (+) SumBags(Tail(bags))

\* Every entry of a dictionary as a bag of <<keyword, location>> pairs.
DictBag(d) ==
    SumBags([i \in DOMAIN d |->
                SeqBag([j \in DOMAIN d[i].v |-> <<d[i].k, d[i].v[j]>>])])

ThreadSplitDone == cpc # "t_call"
ThreadReturned == cpc \in {"t_returned", "p_run", "p_returned"}
InProcessSearch == cpc \in {"p_run", "p_returned"}

\* The matches of the variant's scanner for a keyword, summed over every
\* position of the file list.
ExpectedBag(kw) ==
    SumBags([i \in DOMAIN file_paths |->
                LocBag(scans[file_paths[i]].val, kw)])

\* C1: when the thread search has returned with n >= 1, the returned map
\* holds for every keyword exactly the scanner's matches of every position
\* of the file list, as a multiset, and holds no other key.
C1_ThreadComplete ==
    (ThreadReturned /\ num >= 1) =>
        /\ \A kw \in Range(keywords) : LocBag(tret, kw) = ExpectedBag(kw)
        /\ DictKeys(tret) \subseteq Range(keywords)

\* C2: when both searches have returned for the same inputs with n >= 1,
\* every keyword has the same multiset of locations in the thread search's
\* map and in the process search's map.
C2_MergeEquivalence ==
    (cpc = "p_returned" /\ num >= 1) =>
        \A kw \in DictKeys(tret) \cup DictKeys(pret) \cup Range(keywords) :
            LocBag(tret, kw) = LocBag(pret, kw)

\* C2 witness: both searches returned the same non-empty multisets in
\* different orders.
C2_Witness ==
    /\ cpc = "p_returned"
    /\ num >= 2
    /\ tret # <<>>
    /\ tret # pret

\* C3: for n >= 1 the shards, taken together as a multiset, are the
\* original list: nothing dropped, nothing assigned twice.
C3_PartitionComplete ==
    (ThreadSplitDone /\ num >= 1) =>
        SumBags([k \in DOMAIN shards |-> SeqBag(shards[k])]) = SeqBag(file_paths)

\* C3 witness: a list with a duplicate path, of a length n does not divide.
C3_Witness ==
    /\ ThreadSplitDone
    /\ num = 2
    /\ Len(file_paths) = 3
    /\ file_paths[1] = file_paths[3]
    /\ Len(shards[1]) = 2

\* C4: for n >= 1 there are n shards and shard k is the items whose
\* 0-based index is k modulo n, in their original order.
C4_RoundRobin ==
    (ThreadSplitDone /\ num >= 1) =>
        /\ Len(shards) = num
        /\ \A k \in 1..num :
              LET mine == {i \in DOMAIN file_paths : (i - 1) % num = k - 1}
              IN  /\ Len(shards[k]) = Cardinality(mine)
                  /\ \A j \in DOMAIN shards[k] :
                        /\ k + (j - 1) * num \in mine
                        /\ shards[k][j] = file_paths[k + (j - 1) * num]

\* C4 witness: three different files over two workers, the first shard is
\* the first and the third file.
C4_Witness ==
    /\ ThreadSplitDone
    /\ num = 2
    /\ Len(file_paths) = 3
    /\ Cardinality(Range(file_paths)) = 3
    /\ shards[1] = <<file_paths[1], file_paths[3]>>

\* C5 as stated: n <= 0 or an empty list gives zero shards, n = 1 gives one
\* shard holding the whole list in order.
C5_Original ==
    ThreadSplitDone =>
        /\ (num <= 0 \/ file_paths = <<>>) => Len(shards) = 0
        /\ num = 1 => shards = <<file_paths>>

\* C5 amended: n <= 0 gives zero shards; an empty list with n >= 1 gives n
\* shards, every one empty; n = 1 gives one shard holding the whole list in
\* order.
C5_Degenerate ==
    ThreadSplitDone =>
        /\ num <= 0 => Len(shards) = 0
        /\ (num >= 1 /\ file_paths = <<>>) =>
              /\ Len(shards) = num
              /\ \A k \in DOMAIN shards : shards[k] = <<>>
        /\ num = 1 => shards = <<file_paths>>

\* C5 witness: an empty list split for two workers gives two empty shards.
C5_Witness ==
    /\ ThreadSplitDone
    /\ num = 2
    /\ file_paths = <<>>
    /\ shards = << <<>>, <<>> >>

\* The worker threads inside the fold section.
Folding == {w \in Workers : wpc[w] = "fold"}

\* C6: at most one worker is inside the fold section, and a worker inside
\* it holds the lock.
C6_FoldMutex ==
    /\ Cardinality(Folding) <= 1
    /\ \A w \in Folding : lock = w

\* C6 witness: one worker is folding while another has finished scanning
\* and waits for the lock.
C6_Witness ==
    \E w \in Workers, v \in Workers :
        /\ w # v
        /\ wpc[w] = "fold"
        /\ wkey[w] > 1
        /\ wpc[v] = "scan"
        /\ widx[v] > Len(shards[v])

\* C7: in the state in which the thread search returns, every worker was
\* started, has scanned its whole shard, has folded all of its results and
\* has ended, and the lock is free.
C7_JoinBeforeReturn ==
    cpc = "t_returned" =>
        /\ started = Len(shards)
        /\ lock = 0
        /\ \A w \in Workers :
              /\ wpc[w] = "done"
              /\ widx[w] > Len(shards[w])
              /\ wkey[w] > Len(wres[w])

\* C7 witness: the thread search returns matches folded by two workers.
C7_Witness ==
    /\ cpc = "t_returned"
    /\ Len(shards) = 2
    /\ \A w \in Workers : wres[w] # <<>>
    /\ tret # <<>>

\* C8: a worker process never puts more than one message, puts it only
\* after the last file of its shard, and has put exactly one once it has
\* returned from process_search.
C8_OneMessage ==
    InProcessSearch =>
        \A w \in Workers :
            /\ puts[w] <= 1
            /\ puts[w] = 1 => widx[w] > Len(shards[w])
            /\ wpc[w] \in {"sent", "flushed", "done"} <=> puts[w] = 1
            /\ cpc = "p_returned" => puts[w] = 1

\* C8 witness: a worker with an empty shard and a worker whose shard holds
\* a missing file have both ended, one message each.
C8_Witness ==
    /\ InProcessSearch
    /\ \E w \in Workers, v \in Workers :
          /\ shards[w] = <<>>
          /\ wpc[w] = "done"
          /\ puts[w] = 1
          /\ "gone.txt" \in Range(shards[v])
          /\ Len(shards[v]) >= 1
          /\ wpc[v] = "done"
          /\ puts[v] = 1

\* C9: the coordinator never receives more messages than it launched
\* workers and never two of one worker; when the call returns it has
\* received one message of every worker, the returned map holds every entry
\* of every worker's results exactly once, and the queue is empty.
C9_ExactDrain ==
    InProcessSearch =>
        /\ Len(received) <= Len(shards)
        /\ \A i \in DOMAIN received, j \in DOMAIN received :
              received[i] = received[j] => i = j
        /\ cpc = "p_returned" =>
              /\ Len(received) = Len(shards)
              /\ Range(received) = Workers
              /\ result_queue = <<>>
              /\ DictBag(pret) = SumBags([w \in Workers |-> DictBag(wres[w])])

\* C9 witness: the call returned after receiving the second worker's
\* message before the first worker's.
C9_Witness ==
    /\ cpc = "p_returned"
    /\ received = <<2, 1>>
    /\ pret # <<>>

\* C10: the coordinator joins no worker process before it has received the
\* messages of all launched workers, and when the call returns every
\* worker process has terminated.
C10_DrainThenJoin ==
    InProcessSearch =>
        /\ joined > 0 => (Len(received) = Len(shards) /\ Range(received) = Workers)
        /\ cpc = "p_returned" =>
              (joined = Len(shards) /\ \A w \in Workers : wpc[w] = "done")

\* C10 witness: the coordinator has joined the first of two worker
\* processes and not yet the second.
C10_Witness ==
    /\ cpc = "p_run"
    /\ Len(shards) = 2
    /\ joined = 1
    /\ Len(received) = 2

\* C11: under fair scheduling the process search returns, whatever the file
\* list (missing files included), the keyword list and the worker count: no
\* state short of the return is a deadlock.
C11_ProcessTerminates == <>(cpc = "p_returned")

\* C11 witness: every worker has put its message and the coordinator has
\* not yet received any, with more messages than the pipe holds.
C11_Witness ==
    /\ cpc = "p_run"
    /\ Len(shards) > PipeCapacity
    /\ started = Len(shards)
    /\ received = <<>>
    /\ \A w \in Workers : puts[w] = 1
    /\ "gone.txt" \in Range(file_paths)

\* The positions of the file list that hold a nonexistent path.
MissingAt == {i \in DOMAIN file_paths : FS[file_paths[i]].kind = "missing"}

\* The matches of the variant's scanner for a keyword in the valid files of
\* the file list.
ValidBag(kw) ==
    SumBags([i \in DOMAIN file_paths |->
                IF i \in MissingAt THEN EmptyBag
                ELSE LocBag(scans[file_paths[i]].val, kw)])

\* C12: when both searches have returned for a file list with exactly one
\* nonexistent path and n >= 1, every worker has gone through its whole
\* shard and both returned maps hold, for every keyword, exactly the
\* matches of the valid files.
C12_BadFileTolerance ==
    (cpc = "p_returned" /\ num >= 1 /\ Cardinality(MissingAt) = 1) =>
        /\ \A w \in Workers : wpc[w] = "done" /\ widx[w] > Len(shards[w])
        /\ \A kw \in Range(keywords) :
              /\ LocBag(tret, kw) = ValidBag(kw)
              /\ LocBag(pret, kw) = ValidBag(kw)

\* C13: a scanner call lets no exception escape, and returns an empty
\* mapping when the file does not exist, cannot be opened, or a read or a
\* decode fails at any point of the scan.
C13_FailureContained ==
    spc = "returned" =>
        /\ out.exc = "none"
        /\ file.kind # "text" => out.val = <<>>

\* The positions of the line terminators of a text.
Terminators(text) == {i \in DOMAIN text : text[i] = "\n"}

\* The k-th smallest element of a set of numbers.
Kth(T, k) == CHOOSE t \in T : Cardinality({u \in T : u <= t}) = k

\* The number of lines of a text: one for each terminator, one more for
\* what follows the last terminator.
LineCount(text) ==
    Cardinality(Terminators(text))
      + (IF text # <<>> /\ text[Len(text)] # "\n" THEN 1 ELSE 0)

\* The n-th line of a text, 1-indexed, its terminator included.
NthLine(text, n) ==
    LET T == Terminators(text)
        first == IF n = 1 THEN 1 ELSE Kth(T, n - 1) + 1
        last == IF n <= Cardinality(T) THEN Kth(T, n) ELSE Len(text)
    IN  SubSeq(text, first, last)

\* The same letter, in either case.
SameLetter(a, b) == a = b \/ {a, b} \in {{"P", "p"}, {"Y", "y"}}

\* The keyword occurs in the line, letter case ignored.
OccursIn(line, kw) ==
    \E i \in 0..(Len(line) - Len(kw)) :
        \A j \in 1..Len(kw) : SameLetter(line[i + j], kw[j])

\* The line numbers a call returned for a keyword.
LinesReported(kw) ==
    {n \in 1..(MaxScanLen + 1) :
        Location(ScanPath, n) \in Range(DictGet(out.val, kw))}

\* C14: for a readable file, whatever its size relative to the read buffer,
\* the call returns for every keyword exactly the numbers of the lines of
\* the whole file that contain it, each of them once.
C14_LineNumbering ==
    (spc = "returned" /\ file.kind = "text") =>
        /\ out.exc = "none"
        /\ \A kw \in Range(keywords) :
              /\ LinesReported(kw) =
                    {n \in 1..LineCount(file.data) :
                        OccursIn(NthLine(file.data, n), kw)}
              /\ Len(DictGet(out.val, kw)) = Cardinality(LinesReported(kw))

\* C15: for a readable file that one read delivers whole, a line is
\* recorded for a keyword exactly when the keyword occurs in it with the
\* letter case of both ignored.
C15_CaseInsensitive ==
    (spc = "returned" /\ file.kind = "text" /\ Len(file.data) <= size) =>
        \A kw \in Range(keywords), n \in 1..(MaxScanLen + 1) :
            Location(ScanPath, n) \in Range(DictGet(out.val, kw))
              <=> /\ n <= LineCount(file.data)
                  /\ \E i \in 0..(Len(NthLine(file.data, n)) - Len(kw)) :
                        \A j \in 1..Len(kw) :
                            SameLetter(NthLine(file.data, n)[i + j], kw[j])

\* C15 witness: the keyword "PY" is found in a second line "py", and the
\* keyword "y" in a first line holding "Py".
C15_Witness ==
    /\ spc = "returned"
    /\ file.kind = "text"
    /\ Len(file.data) <= size
    /\ \/ /\ keywords = << <<"P", "Y">> >>
          /\ file.data = <<"y", "\n", "p", "y">>
          /\ DictGet(out.val, <<"P", "Y">>) = <<Location(ScanPath, 2)>>
       \/ /\ keywords = << <<"y">>, <<"Y", "p">> >>
          /\ file.data = <<"P", "y", "P", "\n">>
          /\ DictGet(out.val, <<"y">>) = <<Location(ScanPath, 1)>>
          /\ DictGet(out.val, <<"Y", "p">>) = <<Location(ScanPath, 1)>>

\* A dictionary holds no key with an empty list.
NoEmptyEntry(d) == \A i \in DOMAIN d : d[i].v # <<>>

\* C16: the mapping the scanner returns for a file, every worker's partial
\* result, every message on the queue, the shared and the coordinator's
\* dictionary and both returned maps hold no key with an empty list; once
\* a search has returned, a keyword that matches in no file of the list is
\* not a key of its result.
C16_NoEmptyEntries ==
    /\ \A p \in Paths : NoEmptyEntry(scans[p].val)
    /\ \A w \in Workers : NoEmptyEntry(wres[w])
    /\ \A i \in DOMAIN result_queue : NoEmptyEntry(result_queue[i].body)
    /\ NoEmptyEntry(result_dict)
    /\ NoEmptyEntry(results)
    /\ NoEmptyEntry(tret)
    /\ NoEmptyEntry(pret)
    /\ \A kw \in Range(keywords) :
          /\ (ThreadReturned /\ kw \in DictKeys(tret)) => ExpectedBag(kw) # EmptyBag
          /\ (cpc = "p_returned" /\ kw \in DictKeys(pret)) =>
                ExpectedBag(kw) # EmptyBag

\* C16 witness: both searches returned a map holding the keyword that
\* matches and not the keyword that matches nowhere.
C16_Witness ==
    /\ cpc = "p_returned"
    /\ keywords = << <<"P", "Y">>, <<"d">> >>
    /\ file_paths = <<"b.txt", "gone.txt">>
    /\ num = 2
    /\ DictKeys(tret) = {<<"P", "Y">>}
    /\ DictKeys(pret) = {<<"P", "Y">>}

\* The line number a location of the file at path p names.
LineOf(p, loc) == CHOOSE n \in 1..Len(FS[p].data) : Location(p, n) = loc

\* The locations are of the file at path p, in ascending line order.
Ascending(p, locs) ==
    /\ \A i \in DOMAIN locs : \E n \in 1..Len(FS[p].data) : locs[i] = Location(p, n)
    /\ \A i, j \in DOMAIN locs : i < j => LineOf(p, locs[i]) <= LineOf(p, locs[j])

\* What the scanner calls of kind call (ThreadScanCall or ProcessScanCall)
\* find for a keyword in the files of shard w, file after file.
ShardLocs(call(_, _), w, kw) ==
    Concat([j \in DOMAIN shards[w] |->
               DictGet(call(variant, scans[shards[w][j]]).val, kw)])

\* s is an interleaving of the sequences seqs: it holds their entries, the
\* entries of each of them in their order.
RECURSIVE IsMerge(_, _)
IsMerge(seqs, s) ==
    IF s = <<>> THEN \A k \in DOMAIN seqs : seqs[k] = <<>>
    ELSE \E k \in DOMAIN seqs :
            /\ seqs[k] # <<>>
            /\ Head(seqs[k]) = Head(s)
            /\ IsMerge([seqs EXCEPT ![k] = Tail(@)], Tail(s))

\* C17: what the scanner returns for a file is in ascending line order, and
\* the map either search returns holds for every keyword an interleaving
\* of the shards' lists, each shard's list being its files' entries file
\* after file in the order of the shard.
C17_ShardOrder ==
    /\ \A p \in Paths, kw \in Range(keywords) :
          Ascending(p, DictGet(scans[p].val, kw))
    /\ \A kw \in Range(keywords) :
          /\ cpc = "t_returned" =>
                IsMerge([w \in Workers |-> ShardLocs(ThreadScanCall, w, kw)],
                        DictGet(tret, kw))
          /\ cpc = "p_returned" =>
                IsMerge([w \in Workers |-> ShardLocs(ProcessScanCall, w, kw)],
                        DictGet(pret, kw))

\* C17 witness: two shards, one of two files with two matches each, and the
\* two searches returned the shards' entries in different orders.
C17_Witness ==
    /\ cpc = "p_returned"
    /\ num = 2
    /\ file_paths = <<"a.txt", "b.txt", "a.txt">>
    /\ keywords = << <<"p", "y">> >>
    /\ Len(DictGet(pret, <<"p", "y">>)) = 5
    /\ DictGet(tret, <<"p", "y">>) # DictGet(pret, <<"p", "y">>)

\* The workers that faulted.
Faulted == {w \in Workers : wpc[w] = "crashed"}

\* C18: with at most one worker thread faulting while it scans or folds,
\* the lock is only ever held by a worker inside the fold, the thread
\* search returns, and when it returns every worker was joined, every
\* worker that did not fault has folded all of its results, the lock is
\* free and the returned map holds for every keyword all the entries of
\* the workers that did not fault.
C18_FaultIsolation ==
    /\ [](lock # 0 => lock \in Workers /\ wpc[lock] = "fold")
    /\ [](cpc = "t_returned" =>
            /\ joined = Len(shards)
            /\ lock = 0
            /\ \A w \in Workers \ Faulted :
                  wpc[w] = "done" /\ wkey[w] > Len(wres[w])
            /\ \A kw \in Range(keywords) :
                  SumBags([w \in Workers |->
                              IF w \in Faulted THEN EmptyBag
                              ELSE SeqBag(ShardLocs(ThreadScanCall, w, kw))])
                    \sqsubseteq LocBag(tret, kw))
    /\ <>(cpc = "t_returned")

\* C18 witness: the search returned after a worker faulted in the middle of
\* its fold, with the entries of the other worker in the map.
C18_Witness ==
    /\ cpc = "t_returned"
    /\ \E w \in Faulted : wkey[w] > 1 /\ wkey[w] <= Len(wres[w])
    /\ \E w \in Workers \ Faulted : wres[w] # <<>>

\* C19: once a started worker process has ended without putting its
\* message, the coordinator has received fewer messages than it waits for,
\* has joined no worker and has not returned, in every state that follows.
C19_DrainBlocked ==
    (\E w \in Workers : wpc[w] = "crashed" /\ puts[w] = 0) =>
        /\ cpc = "p_run"
        /\ Len(received) < Len(shards)
        /\ joined = 0

\* C19 witness: one worker ended without a put, the other's message was
\* received and the queue is empty: the coordinator waits in get().
C19_Witness ==
    /\ cpc = "p_run"
    /\ \E w \in Workers : wpc[w] = "crashed" /\ puts[w] = 0
    /\ \E w \in Workers : wpc[w] = "done"
    /\ Len(received) = Len(shards) - 1
    /\ result_queue = <<>>

\* The shards that hold at least one file.
NonEmptyShards == {k \in DOMAIN shards : shards[k] # <<>>}

\* C20 as stated: when a search returns it has launched as many workers as
\* there are non-empty shards, and no worker ever runs for an empty shard.
C20_Original ==
    /\ cpc \in {"t_returned", "p_returned"} =>
          started = Cardinality(NonEmptyShards)
    /\ \A w \in Workers : wpc[w] # "idle" => shards[w] # <<>>

\* C20 amended: when a search returns it has launched one worker for every
\* shard, n workers for n >= 1 and none for n <= 0, and the worker of every
\* shard, empty or not, has run to its end.
C20_WorkerPerShard ==
    cpc \in {"t_returned", "p_returned"} =>
        /\ started = Len(shards)
        /\ started = (IF num >= 1 THEN num ELSE 0)
        /\ \A w \in Workers : wpc[w] = "done"

\* C20 witness: the process search returned after two workers ran for one
\* file, the second of them for an empty shard.
C20_Witness ==
    /\ cpc = "p_returned"
    /\ num = 2
    /\ Len(file_paths) = 1
    /\ started = 2
    /\ shards[2] = <<>>
    /\ wpc[2] = "done"
    /\ puts[2] = 1

\* The other scanner than the one the call ran.
OtherVariant == IF variant = "main" THEN "pkg" ELSE "main"

\* C21: for every readable file and keyword list, whatever the size of the
\* read buffer relative to the file, the scanner that reads buffers and
\* splits each of them into lines and the scanner that iterates the lines
\* of the file return the same mapping.
C21_ScannersAgree ==
    (spc = "returned" /\ file.kind = "text") =>
        out = ScanFile(OtherVariant, file, ScanPath, keywords, size)

\* C22: a worker that holds the lock is in its fold and has scanned every
\* file of its shard, and every other worker that still has a file to scan
\* can take its scanning step.
C22_LockScope ==
    \A w \in Workers :
        lock = w =>
            /\ wpc[w] = "fold"
            /\ widx[w] > Len(shards[w])
            /\ \A v \in Workers \ {w} :
                  (wpc[v] = "scan" /\ widx[v] <= Len(shards[v])) =>
                      ENABLED TScan(v)

\* C22 witness: one worker is in the middle of its fold while another has
\* scanned one of its two files.
C22_Witness ==
    \E w \in Workers, v \in Workers :
        /\ lock = w
        /\ wkey[w] > 1
        /\ wkey[w] <= Len(wres[w])
        /\ wpc[v] = "scan"
        /\ widx[v] = 2
        /\ Len(shards[v]) = 2

\* The dictionary e is d with entries appended: the keys of d keep their
\* places and the list of each is the beginning of its list in e.
GrowsInto(d, e) ==
    /\ Len(d) <= Len(e)
    /\ \A i \in DOMAIN d :
          /\ e[i].k = d[i].k
          /\ Len(d[i].v) <= Len(e[i].v)
          /\ SubSeq(e[i].v, 1, Len(d[i].v)) = d[i].v

\* The final maps are empty until the first fold.
StartsEmpty ==
    /\ (cpc = "t_call" \/ (cpc = "t_run" /\ \A w \in Workers : wkey[w] = 1)) =>
          result_dict = <<>>
    /\ (cpc \in {"t_call", "t_run", "t_returned", "p_call"}
          \/ (cpc = "p_run" /\ received = <<>>)) => results = <<>>

\* What a step may do to the partial results and to the final maps.
OwnedStep ==
    /\ cpc' = cpc =>
          \A w \in Workers :
              wres'[w] # wres[w] =>
                  /\ wpc[w] = "scan"
                  /\ widx'[w] = widx[w] + 1
                  /\ \A v \in Workers \ {w} : wres'[v] = wres[v]
                  /\ result_dict' = result_dict
                  /\ results' = results
    /\ result_dict' # result_dict =>
          /\ lock \in Workers
          /\ wpc[lock] = "fold"
          /\ wres' = wres
          /\ GrowsInto(result_dict, result_dict')
          /\ \E i \in DOMAIN wres[lock] :
                result_dict' =
                    DictExtend(result_dict, wres[lock][i].k, wres[lock][i].v)
    /\ results' # results =>
          /\ cpc = "p_run"
          /\ Len(received') = Len(received) + 1
          /\ wres' = wres
          /\ wpc' = wpc
          /\ GrowsInto(results, results')

\* C23: a worker's partial result changes only in that worker's own scanning
\* step, which changes no other partial result and no final map; the final
\* maps are empty until the first fold and change only in a fold, of the
\* worker holding the lock from its own partial result in the thread
\* search, of the receiving coordinator in the process search; a fold only
\* appends, keeping every entry and its place.
C23_Ownership == [](StartsEmpty) /\ [][OwnedStep]_vars

\* C23 witness: the coordinator has folded one worker's message into a
\* non-empty map while another worker, with matches of its own, still
\* scans.
C23_Witness ==
    /\ cpc = "p_run"
    /\ Len(received) = 1
    /\ results # <<>>
    /\ \E v \in Workers :
          /\ wpc[v] = "scan"
          /\ widx[v] = 2
          /\ Len(shards[v]) = 2
          /\ wres[v] # <<>>

\* C24: when create_test_files_and_folders has returned, num_files files
\* are on disk, the returned list holds exactly their paths, each once, and
\* no worker is still running.
C24_GeneratorReturn ==
    gpc = "returned" =>
        /\ Cardinality(disk) = num_files
        /\ SeqBag(gret) = SetToBag(disk)
        /\ \A w \in GenWorkers : gwpc[w] \in {"idle", "done"}

\* The orders in which the workers may have folded.
WorkerOrders ==
    {order \in [Workers -> Workers] :
        \A i, j \in Workers : order[i] = order[j] => i = j}

\* The workers' lists for a keyword, one whole list after another in the
\* given order of workers.
Blocks(order, kw) == Concat([i \in DOMAIN order |-> DictGet(wres[order[i]], kw)])

\* C25: in the map either search returns, every keyword's list is the
\* workers' lists for that keyword laid end to end, each worker's list in
\* one piece: in some order of the workers after the thread search, in the
\* order the messages were received after the process search.
C25_WholeBlocks ==
    \A kw \in Range(keywords) :
        /\ cpc = "t_returned" =>
              \E order \in WorkerOrders : DictGet(tret, kw) = Blocks(order, kw)
        /\ cpc = "p_returned" =>
              DictGet(pret, kw) = Blocks(received, kw)

\* C25 witness: the process search returned the one entry of the second
\* worker in front of the four entries of the first.
C25_Witness ==
    /\ cpc = "p_returned"
    /\ received = <<2, 1>>
    /\ keywords = << <<"p", "y">> >>
    /\ Len(DictGet(wres[1], <<"p", "y">>)) = 4
    /\ Len(DictGet(wres[2], <<"p", "y">>)) = 1
    /\ DictGet(pret, <<"p", "y">>) =
          DictGet(wres[2], <<"p", "y">>) \o DictGet(wres[1], <<"p", "y">>)

\* The numbers of the lines of the file at path p that contain the keyword.
MatchingLines(p, kw) ==
    {n \in 1..LineCount(FS[p].data) : OccursIn(NthLine(FS[p].data, n), kw)}

\* C26: for every readable file and every keyword of the list, the list the
\* scanner returns for the keyword has as many entries as the file has
\* lines that contain the keyword.
C26_OncePerLine ==
    \A p \in Paths, kw \in Range(keywords) :
        FS[p].kind = "text" =>
            Len(DictGet(scans[p].val, kw)) = Cardinality(MatchingLines(p, kw))

====
